---- MODULE Spec2Model ----
(***************************************************************************)
(* The embedding-indexed retrieval store of src/rag/vectorStore.js.       *)
(*                                                                         *)
(* The file holds two versions of class VectorStore: lines 1-177 (ver = 1) *)
(* and lines 179-343 (ver = 2).  Both are modelled; the variable ver says  *)
(* which one the process runs.  An async method is a sequence of atomic    *)
(* steps cut at its awaits; every step between two awaits is one action.   *)
(*                                                                         *)
(* JavaScript values:                                                      *)
(*   undefined            the string Undef                                 *)
(*   a truthy non-string  the string NonString (e.g. the number 42)        *)
(*   an optional argument a sequence of length 0 (absent) or 1 (given)     *)
(*   a score              [n, d] standing for the real n / sqrt(d), d > 0  *)
(*   a metadata object    [defined, field]; field = Undef: no "field" key  *)
(* Array positions are 0-based as in the source; Seq indices are 1-based.  *)
(***************************************************************************)
EXTENDS Integers, Sequences, FiniteSets, TLC

(* ------------------------------ bounds -------------------------------- *)

MaxChunks == 2        \* longest chunks array passed to buildVectorStore
MaxTopK == 1          \* largest explicit topK option
NumTasks == 2         \* async calls that can be in flight at once
MaxBuilds == 1        \* buildVectorStore calls made over a run
OverlapBuilds == 2    \* buildVectorStore calls made over a run of two builders
PipelineRecords == 3  \* records of the store the search pipelines are run on
PipelineTopK == 2     \* largest topK passed to those searches

(* EMBEDDING_DIM is 384 in the source (vectorStore.js:185); the model      *)
(* scales it down.                                                         *)
EMBEDDING_DIM == 2

Tasks == 1..NumTasks

(* --------------------------- JavaScript values ------------------------ *)

Undef == "undefined"
NonString == "<non-string>"

Truthy(x) == x \notin {Undef, ""}
IsString(x) == x \notin {Undef, NonString}

OptVal(opt, default) == IF opt = << >> THEN default ELSE opt[1]

Min(a, b) == IF a < b THEN a ELSE b
Max(a, b) == IF a < b THEN b ELSE a
Abs(a) == IF a < 0 THEN 0 - a ELSE a

(* the reals n / sqrt(d): comparison without leaving the integers,         *)
(* x |-> x*|x| being strictly increasing                                   *)
ScoreLT(s, t) == s.n * Abs(s.n) * t.d < t.n * Abs(t.n) * s.d
ScoreGE(s, t) == ~ScoreLT(s, t)
ScoreEQ(s, t) == ~ScoreLT(s, t) /\ ~ScoreLT(t, s)

(* ------------------------------ data ---------------------------------- *)

Fields == {"hobbies"}
FieldKeys == Fields \cup {"general", Undef}

NoMetadata == [defined |-> FALSE, field |-> Undef]
Metadata(f) == [defined |-> TRUE, field |-> f]

(* what the provider can answer: vectors of EMBEDDING_DIM numbers *)
Vecs == {v \in [1..EMBEDDING_DIM -> 0..1] : v[1] = 1}

(* chunks a caller can pass: with an id or without, with content or with   *)
(* empty content, tagged with a field (as chunk.field and as               *)
(* chunk.metadata.field) or untagged                                       *)
Chunk(id, content, f) ==
  [id |-> id, content |-> content, field |-> f,
   metadata |-> IF f = Undef THEN NoMetadata ELSE Metadata(f)]

ChunkInputs ==
  {Chunk("a", "x", "hobbies"), Chunk(Undef, "y", Undef), Chunk("a", "", Undef)}

RECURSIVE SeqsUpTo(_, _)
SeqsUpTo(S, n) ==
  IF n = 0 THEN {<< >>}
  ELSE LET shorter == SeqsUpTo(S, n - 1)
       IN shorter \cup {Append(s, x) : s \in {r \in shorter : Len(r) = n - 1}, x \in S}

(* ------------------------- pure functions ----------------------------- *)

RECURSIVE DotUpTo(_, _, _)
DotUpTo(a, b, k) == IF k = 0 THEN 0 ELSE DotUpTo(a, b, k - 1) + a[k] * b[k]

(* version 1: dot / (sqrt(na) * sqrt(nb) || 1) *)
cosineSimilarity1(a, b) ==
  LET dot == DotUpTo(a, b, Len(a))
      na == DotUpTo(a, a, Len(a))
      nb == DotUpTo(b, b, Len(a))
  IN [n |-> dot, d |-> IF na * nb = 0 THEN 1 ELSE na * nb]

(* version 2: the raw dot product over EMBEDDING_DIM components *)
cosineSimilarity2(a, b) == [n |-> DotUpTo(a, b, EMBEDDING_DIM), d |-> 1]

(* this.vectors.map(v => ({...v, score})); pos is the record's position in *)
(* this.vectors, kept to tell equal records apart                          *)
scored1(vs, qe) ==
  [i \in 1..Len(vs) |->
     [rec |-> vs[i], score |-> cosineSimilarity1(qe, vs[i].embedding), pos |-> i - 1]]

scored2(vs, qe) ==
  [i \in 1..Len(vs) |->
     [rec |-> vs[i], score |-> cosineSimilarity2(qe, vs[i].embedding), pos |-> i - 1]]

(* InsertDesc as an unstable sort would do it: an element goes before the  *)
(* elements it ties with                                                   *)
RECURSIVE InsertDesc_unstable(_, _)
InsertDesc_unstable(s, x) ==
  IF s = << >> THEN << x >>
  ELSE IF ~ScoreLT(x.score, Head(s).score) THEN << x >> \o s
       ELSE << Head(s) >> \o InsertDesc_unstable(Tail(s), x)

(* Array.prototype.sort((a, b) => b.score - a.score): stable, descending *)
RECURSIVE InsertDesc(_, _)
InsertDesc(s, x) ==
  IF s = << >> THEN << x >>
  ELSE IF ScoreLT(Head(s).score, x.score) THEN << x >> \o s
       ELSE << Head(s) >> \o InsertDesc(Tail(s), x)

RECURSIVE sortDesc(_)
sortDesc(s) ==
  IF s = << >> THEN << >>
  ELSE InsertDesc(sortDesc(SubSeq(s, 1, Len(s) - 1)), s[Len(s)])

(* KeepsScore with > for >= *)
KeepsScore_strict(score, minScore) == ScoreLT(minScore, score)

(* .filter(v => v.score >= minScore) *)
KeepsScore(score, minScore) == ScoreGE(score, minScore)

filterMin(s, minScore) == SelectSeq(s, LAMBDA v : KeepsScore(v.score, minScore))

(* .slice(0, k) *)
slice0(s, k) ==
  LET end == IF k < 0 THEN Max(Len(s) + k, 0) ELSE Min(k, Len(s))
  IN SubSeq(s, 1, end)

(* lines 111-117: .filter(...).sort(...).slice(0, topK) *)
filterSortSlice(s, topK, minScore) ==
  slice0(sortDesc(filterMin(s, minScore)), topK)

(* sortFilterSlice with the slice taken first *)
sortFilterSlice_sliceFirst(s, topK, minScore) ==
  filterMin(sortDesc(slice0(s, topK)), minScore)

(* lines 298-301: .sort(...).filter(...).slice(0, topK) *)
sortFilterSlice(s, topK, minScore) ==
  slice0(filterMin(sortDesc(s), minScore), topK)

(* version 1: map, filter, sort, slice *)
searchResults1(vs, qe, topK, minScore) ==
  filterSortSlice(scored1(vs, qe), topK, minScore)

(* searchResults2 with the slice taken before the sort and the filter *)
searchResults2_sliceFirst(vs, qe, topK, minScore) ==
  filterMin(sortDesc(slice0(scored2(vs, qe), topK)), minScore)

(* version 2: map, sort, filter, slice *)
searchResults2(vs, qe, topK, minScore) ==
  sortFilterSlice(scored2(vs, qe), topK, minScore)

(* the key buildIndex files a record under *)
fieldOf1(v) == v.metadata.field
fieldOf2(v) == IF Truthy(v.metadata.field) THEN v.metadata.field ELSE "general"
fieldOf(version, v) == IF version = 1 THEN fieldOf1(v) ELSE fieldOf2(v)

EmptyIndex == [f \in FieldKeys |-> << >>]

(* the index over the first n records: field -> positions, ascending *)
RECURSIVE IndexUpTo(_, _, _)
IndexUpTo(version, vs, n) ==
  IF n = 0 THEN EmptyIndex
  ELSE LET idx == IndexUpTo(version, vs, n - 1)
           f == fieldOf(version, vs[n])
       IN [idx EXCEPT ![f] = Append(@, n - 1)]

(* reading vec.metadata.field of a record without metadata is a TypeError; *)
(* the loop stops there with the index built so far                        *)
FirstNoMetadata(vs) ==
  LET bad == {i \in 1..Len(vs) : ~vs[i].metadata.defined}
  IN IF bad = {} THEN Len(vs) + 1 ELSE CHOOSE i \in bad : \A j \in bad : i <= j

buildIndex(version, vs) ==
  [index |-> IndexUpTo(version, vs, FirstNoMetadata(vs) - 1),
   threw |-> FirstNoMetadata(vs) <= Len(vs)]


(* ------------------------------ state --------------------------------- *)

VARIABLES
  ver,         \* 1: the class of lines 1-177, 2: the class of lines 179-343
  embedder,    \* this.embedder is set
  isReady,     \* this.isReady (version 2)
  vectors,     \* this.vectors
  fieldIndex,  \* this.fieldIndex: field -> positions (<< >>: no such key)
  disk,        \* the file at DB_PATH: [exists, data]
  task,        \* the async calls in flight, one per logical caller
  builds,      \* how many times buildVectorStore has been called
  acquired,    \* how many times `await pipeline(...)` has answered
  last,        \* the call that completed in the step leading here, if any
  ragReady,    \* index.js: ragReady
  initRAG      \* index.js: where initRAG() stands

vars == << ver, embedder, isReady, vectors, fieldIndex, disk, task, builds,
          acquired, last, ragReady, initRAG >>
store == << vectors, fieldIndex, disk >>
app == << ragReady, initRAG >>

NoFile == [exists |-> FALSE, data |-> << >>]
File(data) == [exists |-> TRUE, data |-> data]

(* a caller with no call in flight *)
Idle ==
  [op |-> "idle", pc |-> "idle", isArray |-> TRUE, chunks |-> << >>, i |-> 0,
   query |-> "", topK |-> 0, minScore |-> [n |-> 0, d |-> 1], fieldFilter |-> << >>,
   queryEmbedding |-> << >>,
   pre |-> [vectors |-> << >>, fieldIndex |-> EmptyIndex,
            disk |-> NoFile]]

NoStats == [vectors |-> 0, fields |-> {}]

NoLast ==
  [op |-> "none", outcome |-> "none", error |-> "none", call |-> Idle,
   result |-> << >>, loaded |-> FALSE, stats |-> NoStats]

Returned(op, call, result) ==
  [NoLast EXCEPT !.op = op, !.outcome = "returned", !.call = call, !.result = result]

Raised(op, call, error) ==
  [NoLast EXCEPT !.op = op, !.outcome = "raised", !.error = error, !.call = call]

(* a record as an earlier run of either version, or an older one, left it  *)
(* in the file: with a field, with metadata {} or with no metadata         *)
DiskRecord(meta) ==
  [id |-> "a", content |-> "x", embedding |-> [k \in 1..EMBEDDING_DIM |-> 1],
   metadata |-> meta]

InitialFiles == {NoFile, File(<< DiskRecord(NoMetadata) >>)}

(* lines 6-11 and 188-193 *)
Init ==
  /\ ver \in {1, 2}
  /\ embedder = FALSE
  /\ isReady = FALSE
  /\ vectors = << >>
  /\ fieldIndex = EmptyIndex
  /\ disk \in InitialFiles
  /\ task = [t \in Tasks |-> Idle]
  /\ builds = 0
  /\ acquired = 0
  /\ last = NoLast
  /\ ragReady = FALSE
  /\ initRAG = "start"

(* ------------------------- steps of the calls ------------------------- *)

NoBuildInFlight == \A t \in Tasks : task[t].op # "build"

(* callers are interchangeable: a new call takes the first free slot *)
FreeSlot(t) == task[t].op = "idle" /\ \A u \in Tasks : u < t => task[u].op # "idle"


(* a call completes: the caller is idle again and last tells how it ended *)
Complete(t, how) ==
  /\ task' = [task EXCEPT ![t] = Idle]
  /\ last' = how

Suspend(t, call) ==
  /\ task' = [task EXCEPT ![t] = call]
  /\ last' = NoLast

(* `if (this.embedder) return` of initEmbedder, lines 16-19 and 198: the   *)
(* place the caller waits at next                                          *)
initEmbedderPc == IF embedder THEN "inited" ELSE "acquire"

(* initEmbedder() without the early return on a set embedder *)
initEmbedder_noGuard(t) ==
  /\ FreeSlot(t)
  /\ Suspend(t, [Idle EXCEPT !.op = "init", !.pc = "acquire"])
  /\ UNCHANGED << builds, acquired, ver, embedder, isReady, store >>

(* initEmbedder() called on its own (lines 15-27, 197-207) *)
initEmbedder(t) ==
  /\ FreeSlot(t)
  /\ IF embedder
       THEN Complete(t, Returned("init", [Idle EXCEPT !.op = "init"], << >>))
       ELSE Suspend(t, [Idle EXCEPT !.op = "init", !.pc = "acquire"])
  /\ UNCHANGED << builds, acquired, ver, embedder, isReady, store >>

(* `await pipeline(...)` resolves: lines 22-26, 201-206 *)
pipelineResolves(t) ==
  /\ task[t].pc = "acquire"
  /\ embedder' = TRUE
  /\ isReady' = IF ver = 2 THEN TRUE ELSE isReady
  /\ IF task[t].op = "init"
       THEN Complete(t, Returned("init", task[t], << >>))
       ELSE Suspend(t, [task[t] EXCEPT !.pc = "inited"])
  /\ acquired' = acquired + 1
  /\ UNCHANGED << builds, ver, store >>

(* a rejected acquisition that still marks the store ready *)
pipelineRejects_setsReady(t) ==
  /\ task[t].pc = "acquire"
  /\ Complete(t, Raised(task[t].op, task[t], "InitializationError"))
  /\ isReady' = TRUE
  /\ UNCHANGED << builds, acquired, ver, embedder, store >>

(* `await pipeline(...)` rejects: the error leaves initEmbedder and the    *)
(* build or search awaiting it                                             *)
pipelineRejects(t) ==
  /\ task[t].pc = "acquire"
  /\ Complete(t, Raised(task[t].op, task[t], "InitializationError"))
  /\ UNCHANGED << builds, acquired, ver, embedder, isReady, store >>

(* embedText without the test of the embedder *)
embedTextError_noInitCheck(text) ==
  IF ver = 1
    THEN "none"
    ELSE IF ~Truthy(text) \/ ~IsString(text) THEN "InvalidInputError"
         ELSE "none"

(* the checks of embedText before it calls the provider: lines 30-32 and   *)
(* 210-216                                                                 *)
embedTextError(text) ==
  IF ver = 1
    THEN IF ~embedder THEN "NotInitializedError" ELSE "none"
    ELSE IF ~isReady THEN "NotInitializedError"
         ELSE IF ~Truthy(text) \/ ~IsString(text) THEN "InvalidInputError"
         ELSE "none"

(* the record pushed for a chunk: lines 57-64 and 246-251 *)
newRecord1(chunk, embedding) ==
  [id |-> chunk.id, content |-> chunk.content, embedding |-> embedding,
   metadata |-> Metadata(IF Truthy(chunk.field) THEN chunk.field ELSE "general")]

newRecord2(vs, chunk, embedding) ==
  [id |-> IF Truthy(chunk.id) THEN chunk.id ELSE "chunk_" \o ToString(Len(vs)),
   content |-> chunk.content, embedding |-> embedding,
   metadata |-> IF chunk.metadata.defined THEN chunk.metadata ELSE Metadata(Undef)]

newRecord(vs, chunk, embedding) ==
  IF ver = 1 THEN newRecord1(chunk, embedding) ELSE newRecord2(vs, chunk, embedding)

(* the records a build makes of the first n chunks cs, the provider having *)
(* answered es[k] for the k-th of them                                     *)
RECURSIVE BuiltFrom(_, _, _)
BuiltFrom(cs, es, n) ==
  IF n = 0 THEN << >>
  ELSE LET vs == BuiltFrom(cs, es, n - 1)
       IN Append(vs, newRecord(vs, cs[n], es[n]))

(* the loop without `if (!chunk.content) continue`: every chunk is taken *)
nextWithContent_noSkip(chunks, i) == i

(* `if (!chunk.content) continue`: the first chunk at or after position i  *)
(* that has content, Len + 1 when there is none                            *)
nextWithContent(chunks, i) ==
  LET rest == {j \in i..Len(chunks) : Truthy(chunks[j].content)}
  IN IF rest = {} THEN Len(chunks) + 1 ELSE CHOOSE j \in rest : \A k \in rest : j <= k

(* JSON.stringify of a record: an object that holds only the keys whose    *)
(* value is defined (lines 125 and 309)                                    *)
JSONstringifyMetadata(m) ==
  [k \in {j \in {"field"} : m.field # Undef} |-> m.field]

(* a serialization that leaves the id out *)
JSONstringifyRecord_dropsId(v) ==
  [k \in {"content", "embedding", "metadata"} |->
     CASE k = "content" -> v.content
       [] k = "embedding" -> v.embedding
       [] k = "metadata" -> JSONstringifyMetadata(v.metadata)]

JSONstringifyRecord(v) ==
  LET keys == {k \in {"id", "content", "embedding", "metadata"} :
                 CASE k = "id" -> v.id # Undef
                   [] k = "content" -> v.content # Undef
                   [] k = "embedding" -> TRUE
                   [] k = "metadata" -> v.metadata.defined}
  IN [k \in keys |->
        CASE k = "id" -> v.id
          [] k = "content" -> v.content
          [] k = "embedding" -> v.embedding
          [] k = "metadata" -> JSONstringifyMetadata(v.metadata)]

JSONstringify(vs) == [i \in 1..Len(vs) |-> JSONstringifyRecord(vs[i])]

(* JSON.parse of such an object: a missing key reads as undefined (lines   *)
(* 135 and 316)                                                            *)
JSONparseRecord(o) ==
  [id |-> IF "id" \in DOMAIN o THEN o.id ELSE Undef,
   content |-> IF "content" \in DOMAIN o THEN o.content ELSE Undef,
   embedding |-> IF "embedding" \in DOMAIN o THEN o.embedding ELSE << >>,
   metadata |-> IF "metadata" \in DOMAIN o
                  THEN Metadata(IF "field" \in DOMAIN o.metadata
                                  THEN o.metadata.field ELSE Undef)
                  ELSE NoMetadata]

JSONparse(text) == [i \in 1..Len(text) |-> JSONparseRecord(text[i])]

(* fs.writeFileSync(DB_PATH, JSON.stringify(this.vectors)): lines 122-128  *)
(* and 308-311.  The file is kept as what JSON.parse reads from it.        *)
saveToDisk(vs) == File(JSONparse(JSONstringify(vs)))

(* the build loop with saveToDisk() after every push *)
buildLoop_savesEachRecord(t, call, vs, i) ==
  LET j == nextWithContent(call.chunks, i)
  IN /\ vectors' = vs
     /\ disk' = saveToDisk(vs)
     /\ IF j > Len(call.chunks)
          THEN /\ fieldIndex' = buildIndex(ver, vs).index
               /\ Complete(t, Returned("build", call, << >>))
          ELSE /\ fieldIndex' = fieldIndex
               /\ IF embedTextError(call.chunks[j].content) # "none"
                    THEN Complete(t, Raised("build", call,
                                            embedTextError(call.chunks[j].content)))
                    ELSE Suspend(t, [call EXCEPT !.pc = "embed", !.i = j])

(* the build loop with saveToDisk() ahead of buildIndex() *)
buildLoop_saveBeforeIndex(t, call, vs, i) ==
  LET j == nextWithContent(call.chunks, i)
  IN IF j > Len(call.chunks)
       THEN /\ vectors' = vs
            /\ \/ /\ disk' = saveToDisk(vs)
                  /\ fieldIndex' = buildIndex(ver, vs).index
                  /\ Complete(t, Returned("build", call, << >>))
               \/ /\ disk' = disk
                  /\ fieldIndex' = fieldIndex
                  /\ Complete(t, Raised("build", call, "PersistenceError"))
       ELSE /\ vectors' = vs
            /\ UNCHANGED << fieldIndex, disk >>
            /\ IF embedTextError(call.chunks[j].content) # "none"
                 THEN Complete(t, Raised("build", call,
                                         embedTextError(call.chunks[j].content)))
                 ELSE Suspend(t, [call EXCEPT !.pc = "embed", !.i = j])

(* the build loop from chunk i on, this.vectors being vs: it runs to the   *)
(* next `await this.embedText(...)`, to a throw of embedText, or to the    *)
(* end, where buildIndex() and saveToDisk() run (lines 52-70, 238-257)     *)
buildLoop(t, call, vs, i) ==
  LET j == nextWithContent(call.chunks, i)
  IN IF j > Len(call.chunks)
       THEN /\ vectors' = vs
            /\ fieldIndex' = buildIndex(ver, vs).index
            /\ IF buildIndex(ver, vs).threw  \* a record without metadata
                 THEN /\ disk' = disk
                      /\ Complete(t, Raised("build", call, "TypeError"))
                 ELSE \/ /\ disk' = saveToDisk(vs)
                         /\ Complete(t, Returned("build", call, << >>))
                      \/ /\ disk' = disk           \* writeFileSync throws
                         /\ Complete(t, Raised("build", call, "PersistenceError"))
       ELSE /\ vectors' = vs
            /\ UNCHANGED << fieldIndex, disk >>
            /\ IF embedTextError(call.chunks[j].content) # "none"
                 THEN Complete(t, Raised("build", call,
                                         embedTextError(call.chunks[j].content)))
                 ELSE Suspend(t, [call EXCEPT !.pc = "embed", !.i = j])

(* buildVectorStore with `this.vectors = []` ahead of the test of chunks *)
buildVectorStore_resetFirst(t, isArray, chunks) ==
  LET call == [Idle EXCEPT !.op = "build", !.isArray = isArray, !.chunks = chunks,
                           !.pre = [vectors |-> vectors, fieldIndex |-> fieldIndex,
                                   disk |-> disk]]
  IN /\ FreeSlot(t)
     /\ builds' = builds + 1
     /\ UNCHANGED << acquired, ver, embedder, isReady >>
     /\ IF ~isArray \/ Len(chunks) = 0
          THEN /\ Complete(t, Raised("build", call, "EmptyInputError"))
               /\ vectors' = << >>
               /\ UNCHANGED << fieldIndex, disk >>
          ELSE IF ver = 1
                 THEN buildLoop(t, call, << >>, 1)
                 ELSE /\ Suspend(t, [call EXCEPT !.pc = initEmbedderPc])
                      /\ UNCHANGED store

(* buildVectorStore without version 1's `this.vectors = []` *)
buildVectorStore_noReset(t, isArray, chunks) ==
  LET call == [Idle EXCEPT !.op = "build", !.isArray = isArray, !.chunks = chunks,
                           !.pre = [vectors |-> vectors, fieldIndex |-> fieldIndex,
                                   disk |-> disk]]
  IN /\ FreeSlot(t)
     /\ builds' = builds + 1
     /\ UNCHANGED << acquired, ver, embedder, isReady >>
     /\ IF ~isArray \/ Len(chunks) = 0
          THEN /\ Complete(t, Raised("build", call, "EmptyInputError"))
               /\ UNCHANGED store
          ELSE IF ver = 1
                 THEN buildLoop(t, call, vectors, 1)
                 ELSE /\ Suspend(t, [call EXCEPT !.pc = initEmbedderPc])
                      /\ UNCHANGED store

(* buildVectorStore(chunks) is called: lines 44-55 and 228-233 *)
buildVectorStore(t, isArray, chunks) ==
  LET call == [Idle EXCEPT !.op = "build", !.isArray = isArray, !.chunks = chunks,
                           !.pre = [vectors |-> vectors, fieldIndex |-> fieldIndex,
                                   disk |-> disk]]
  IN /\ FreeSlot(t)
     /\ builds' = builds + 1
     /\ UNCHANGED << acquired, ver, embedder, isReady >>
     /\ IF ~isArray \/ Len(chunks) = 0
          THEN /\ Complete(t, Raised("build", call, "EmptyInputError"))
               /\ UNCHANGED store
          ELSE IF ver = 1
                 THEN buildLoop(t, call, << >>, 1)
                 ELSE /\ Suspend(t, [call EXCEPT !.pc = initEmbedderPc])
                      /\ UNCHANGED store

(* version 2, after `await this.initEmbedder()`: lines 234-244 *)
buildAfterInit(t) ==
  /\ task[t].op = "build"
  /\ task[t].pc = "inited"
  /\ buildLoop(t, task[t], << >>, 1)
  /\ UNCHANGED << builds, acquired, ver, embedder, isReady >>

(* buildEmbedded that asks for the same chunk's embedding again *)
buildEmbedded_sameChunk(t, embedding) ==
  /\ task[t].op = "build"
  /\ task[t].pc = "embed"
  /\ last' = NoLast
  /\ UNCHANGED << builds, acquired, ver, embedder, isReady, store, task >>

(* buildEmbedded with the record put at the head of this.vectors *)
buildEmbedded_unshift(t, embedding) ==
  /\ task[t].op = "build"
  /\ task[t].pc = "embed"
  /\ buildLoop(t, task[t],
               << newRecord(vectors, task[t].chunks[task[t].i], embedding) >>
                 \o vectors,
               task[t].i + 1)
  /\ UNCHANGED << builds, acquired, ver, embedder, isReady >>

(* buildEmbedded with the record put at either end of this.vectors, as a  *)
(* loop that did not await each embedding in turn could                    *)
buildEmbedded_eitherEnd(t, embedding) ==
  /\ task[t].op = "build"
  /\ task[t].pc = "embed"
  /\ \/ buildLoop(t, task[t],
                   Append(vectors,
                          newRecord(vectors, task[t].chunks[task[t].i], embedding)),
                   task[t].i + 1)
     \/ buildLoop(t, task[t],
                   << newRecord(vectors, task[t].chunks[task[t].i], embedding) >>
                     \o vectors,
                   task[t].i + 1)
  /\ UNCHANGED << builds, acquired, ver, embedder, isReady >>

(* the provider answers the chunk's embedding: the record is pushed and    *)
(* the loop goes on (lines 55-65, 244-252)                                 *)
buildEmbedded(t, embedding) ==
  /\ task[t].op = "build"
  /\ task[t].pc = "embed"
  /\ buildLoop(t, task[t],
               Append(vectors, newRecord(vectors, task[t].chunks[task[t].i], embedding)),
               task[t].i + 1)
  /\ UNCHANGED << builds, acquired, ver, embedder, isReady >>

(* the provider fails: `await this.embedder(...)` rejects in embedText and *)
(* nothing catches it (lines 34, 55, 108; 218, 244, 291)                   *)
embedderRejects(t) ==
  /\ task[t].pc = "embed"
  /\ Complete(t, Raised(task[t].op, task[t], "EmbedError"))
  /\ UNCHANGED << builds, acquired, ver, embedder, isReady, store >>

(* the defaults of search's options: lines 98 and 284 *)
DefaultTopK == 3
defaultMinScore == IF ver = 1 THEN [n |-> 1, d |-> 16]      \* 0.25
                   ELSE [n |-> 1, d |-> 25]                 \* 0.2

(* what search's callers pass: the query and the options object *)
Queries == {"q"}
MinScores == {[n |-> 1, d |-> 1]}
Options(topK, minScore, fieldFilter) ==
  [topK |-> topK, minScore |-> minScore, fieldFilter |-> fieldFilter]
SearchOptions ==
  {Options(<< >>, << >>, << >>)}
  \cup {Options(<< k >>, << >>, << >>) : k \in 1..MaxTopK}
  \cup {Options(<< k >>, << m >>, << >>) : k \in 1..MaxTopK, m \in MinScores}
  \cup {Options(<< >>, << >>, << f >>) : f \in Fields}

(* `await this.embedText(query)` of search: lines 108 and 291 *)
searchEmbedQuery(t, call) ==
  IF embedTextError(call.query) # "none"
    THEN Complete(t, Raised("search", call, embedTextError(call.query)))
    ELSE Suspend(t, [call EXCEPT !.pc = "embed"])

(* search(query, options) is called: lines 98-108 and 284-290.  The        *)
(* options object is destructured for topK and minScore only.              *)
search(t, query, options) ==
  LET call == [Idle EXCEPT !.op = "search", !.query = query,
                           !.topK = OptVal(options.topK, DefaultTopK),
                           !.minScore = OptVal(options.minScore, defaultMinScore),
                           !.fieldFilter = options.fieldFilter]
  IN /\ FreeSlot(t)
     /\ UNCHANGED << builds, acquired, ver, embedder, isReady, store >>
     /\ IF ver = 1
          THEN IF ~embedder THEN Complete(t, Raised("search", call, "NotInitializedError"))
               ELSE IF Len(vectors) = 0 THEN Complete(t, Returned("search", call, << >>))
               ELSE searchEmbedQuery(t, call)
          ELSE IF Len(vectors) = 0 THEN Complete(t, Returned("search", call, << >>))
               ELSE Suspend(t, [call EXCEPT !.pc = initEmbedderPc])

(* version 2, after `await this.initEmbedder()`: line 291 *)
searchAfterInit(t) ==
  /\ task[t].op = "search"
  /\ task[t].pc = "inited"
  /\ searchEmbedQuery(t, task[t])
  /\ UNCHANGED << builds, acquired, ver, embedder, isReady, store >>

searchResults(vs, qe, topK, minScore) ==
  IF ver = 1 THEN searchResults1(vs, qe, topK, minScore)
  ELSE searchResults2(vs, qe, topK, minScore)

(* searchEmbedded with the sort applied to this.vectors itself *)
searchEmbedded_sortsStore(t, queryEmbedding) ==
  /\ task[t].op = "search"
  /\ task[t].pc = "embed"
  /\ Complete(t, Returned("search", [task[t] EXCEPT !.queryEmbedding = queryEmbedding],
                          searchResults(vectors, queryEmbedding,
                                        task[t].topK, task[t].minScore)))
  /\ vectors' = [i \in 1..Len(vectors) |->
                   sortDesc(scored2(vectors, queryEmbedding))[i].rec]
  /\ UNCHANGED << builds, acquired, ver, embedder, isReady, fieldIndex, disk >>

(* the provider answers the query's embedding: this.vectors is scored,     *)
(* filtered, sorted and sliced in one go (lines 110-117, 293-303)          *)
searchEmbedded(t, queryEmbedding) ==
  /\ task[t].op = "search"
  /\ task[t].pc = "embed"
  /\ Complete(t, Returned("search", [task[t] EXCEPT !.queryEmbedding = queryEmbedding],
                          searchResults(vectors, queryEmbedding,
                                        task[t].topK, task[t].minScore)))
  /\ UNCHANGED << builds, acquired, ver, embedder, isReady, store >>

(* ------------------------- synchronous calls -------------------------- *)

(* v.metadata || { field: "general" }: lines 142-145 *)
normalizeLegacy(data) ==
  [i \in 1..Len(data) |->
     [data[i] EXCEPT !.metadata = IF @.defined THEN @ ELSE Metadata("general")]]

(* loadFromDisk(): lines 130-150 *)
loadFromDisk1 ==
  IF ~disk.exists \/ Len(disk.data) = 0
    THEN /\ last' = [Returned("load", Idle, << >>) EXCEPT !.loaded = FALSE]
         /\ UNCHANGED << vectors, fieldIndex >>
    ELSE /\ vectors' = normalizeLegacy(disk.data)
         /\ fieldIndex' = buildIndex(1, vectors').index
         /\ last' = [Returned("load", Idle, << >>) EXCEPT !.loaded = TRUE]

(* loadFromDisk(): lines 313-320 *)
loadFromDisk2 ==
  IF ~disk.exists
    THEN /\ last' = [Returned("load", Idle, << >>) EXCEPT !.loaded = FALSE]
         /\ UNCHANGED << vectors, fieldIndex >>
    ELSE /\ vectors' = disk.data
         /\ fieldIndex' = buildIndex(2, vectors').index
         /\ last' = IF buildIndex(2, vectors').threw
                      THEN Raised("load", Idle, "TypeError")
                      ELSE [Returned("load", Idle, << >>) EXCEPT !.loaded = TRUE]

loadFromDisk ==
  /\ IF ver = 1 THEN loadFromDisk1 ELSE loadFromDisk2
  /\ UNCHANGED << builds, acquired, ver, embedder, isReady, disk, task >>

(* clear() that leaves the file in place *)
clear_keepsFile ==
  /\ vectors' = << >>
  /\ fieldIndex' = EmptyIndex
  /\ last' = Returned("clear", Idle, << >>)
  /\ UNCHANGED << builds, acquired, ver, embedder, isReady, disk, task >>

(* clear() that removes the file and the index but keeps the records *)
clear_keepsRecords ==
  /\ fieldIndex' = EmptyIndex
  /\ disk' = NoFile
  /\ last' = Returned("clear", Idle, << >>)
  /\ UNCHANGED << builds, acquired, ver, embedder, isReady, vectors, task >>

(* clear(): lines 154-158 and 324-328 *)
clear ==
  /\ vectors' = << >>
  /\ fieldIndex' = EmptyIndex
  /\ disk' = NoFile
  /\ last' = Returned("clear", Idle, << >>)
  /\ UNCHANGED << builds, acquired, ver, embedder, isReady, task >>

(* getStats() / stats(): lines 160-165 and 330-335 *)
getStats ==
  /\ last' = [Returned("stats", Idle, << >>) EXCEPT
                !.stats = [vectors |-> Len(vectors),
                           fields |-> {f \in FieldKeys : fieldIndex[f] # << >>}]]
  /\ UNCHANGED << builds, acquired, ver, embedder, isReady, store, task >>

(* --------------------------- specifications --------------------------- *)

ChunkArrays == SeqsUpTo(ChunkInputs, MaxChunks)

(* the calls of the facade, by any number of callers at any time *)
Next ==
  \/ \E t \in Tasks : initEmbedder(t) /\ UNCHANGED app
  \/ \E t \in Tasks : pipelineResolves(t) /\ UNCHANGED app
  \/ \E t \in Tasks : pipelineRejects(t) /\ UNCHANGED app
  \/ \E t \in Tasks, chunks \in ChunkArrays :
        builds < MaxBuilds /\ buildVectorStore(t, TRUE, chunks) /\ UNCHANGED app
  \/ \E t \in Tasks : builds < MaxBuilds /\ buildVectorStore(t, FALSE, << >>) /\ UNCHANGED app
  \/ \E t \in Tasks : buildAfterInit(t) /\ UNCHANGED app
  \/ \E t \in Tasks, e \in Vecs : buildEmbedded(t, e) /\ UNCHANGED app
  \/ \E t \in Tasks : embedderRejects(t) /\ UNCHANGED app
  \/ \E t \in Tasks, q \in Queries, o \in SearchOptions : search(t, q, o) /\ UNCHANGED app
  \/ \E t \in Tasks : searchAfterInit(t) /\ UNCHANGED app
  \/ \E t \in Tasks, e \in Vecs : searchEmbedded(t, e) /\ UNCHANGED app
  \/ loadFromDisk /\ UNCHANGED app
  \/ clear /\ UNCHANGED app
  \/ getStats /\ UNCHANGED app

Spec == Init /\ [][Next]_vars

(* the same calls under the discipline the design assumes: at most one     *)
(* mutating operation in flight, searches and reads at any time            *)
NextSingleWriter ==
  \/ \E t \in Tasks : initEmbedder(t) /\ UNCHANGED app
  \/ \E t \in Tasks : pipelineResolves(t) /\ UNCHANGED app
  \/ \E t \in Tasks : pipelineRejects(t) /\ UNCHANGED app
  \/ \E t \in Tasks, chunks \in ChunkArrays :
        builds < MaxBuilds /\ NoBuildInFlight /\ buildVectorStore(t, TRUE, chunks) /\ UNCHANGED app
  \/ \E t \in Tasks :
        builds < MaxBuilds /\ NoBuildInFlight /\ buildVectorStore(t, FALSE, << >>) /\ UNCHANGED app
  \/ \E t \in Tasks : buildAfterInit(t) /\ UNCHANGED app
  \/ \E t \in Tasks, e \in Vecs : buildEmbedded(t, e) /\ UNCHANGED app
  \/ \E t \in Tasks : embedderRejects(t) /\ UNCHANGED app
  \/ \E t \in Tasks, q \in Queries, o \in SearchOptions : search(t, q, o) /\ UNCHANGED app
  \/ \E t \in Tasks : searchAfterInit(t) /\ UNCHANGED app
  \/ \E t \in Tasks, e \in Vecs : searchEmbedded(t, e) /\ UNCHANGED app
  \/ NoBuildInFlight /\ loadFromDisk /\ UNCHANGED app
  \/ NoBuildInFlight /\ clear /\ UNCHANGED app
  \/ getStats /\ UNCHANGED app

SpecSingleWriter == Init /\ [][NextSingleWriter]_vars

(* callers that pass texts embedText has to refuse: an empty or non-string *)
(* query, a chunk whose content is not a string                            *)
InvalidTextQueries == {"", "q", NonString}
InvalidTextChunkArrays ==
  SeqsUpTo({Chunk(Undef, "y", Undef), Chunk(Undef, NonString, Undef)}, MaxChunks)

NextInvalidText ==
  \/ \E t \in Tasks : initEmbedder(t) /\ UNCHANGED app
  \/ \E t \in Tasks : pipelineResolves(t) /\ UNCHANGED app
  \/ \E t \in Tasks : pipelineRejects(t) /\ UNCHANGED app
  \/ \E t \in Tasks, chunks \in InvalidTextChunkArrays :
        builds < MaxBuilds /\ buildVectorStore(t, TRUE, chunks) /\ UNCHANGED app
  \/ \E t \in Tasks : buildAfterInit(t) /\ UNCHANGED app
  \/ \E t \in Tasks, e \in Vecs : buildEmbedded(t, e) /\ UNCHANGED app
  \/ \E t \in Tasks : embedderRejects(t) /\ UNCHANGED app
  \/ \E t \in Tasks, q \in InvalidTextQueries :
        search(t, q, Options(<< >>, << >>, << >>)) /\ UNCHANGED app
  \/ \E t \in Tasks : searchAfterInit(t) /\ UNCHANGED app
  \/ \E t \in Tasks, e \in Vecs : searchEmbedded(t, e) /\ UNCHANGED app
  \/ loadFromDisk /\ UNCHANGED app

SpecInvalidText == Init /\ [][NextInvalidText]_vars

(* one caller that builds from chunks of which some carry an id of their   *)
(* own, all different, and some carry none                                 *)
MixedIdChunkArrays ==
  {cs \in SeqsUpTo({Chunk("chunk_1", "x", Undef), Chunk(Undef, "y", Undef)},
                   MaxChunks) :
     \A i, j \in DOMAIN cs : (i # j /\ cs[i].id # Undef) => cs[i].id # cs[j].id}

NextMixedIds ==
  \/ \E t \in Tasks : initEmbedder(t) /\ UNCHANGED app
  \/ \E t \in Tasks : pipelineResolves(t) /\ UNCHANGED app
  \/ \E t \in Tasks, chunks \in MixedIdChunkArrays :
        builds < MaxBuilds /\ buildVectorStore(t, TRUE, chunks) /\ UNCHANGED app
  \/ \E t \in Tasks : buildAfterInit(t) /\ UNCHANGED app
  \/ \E t \in Tasks, e \in Vecs : buildEmbedded(t, e) /\ UNCHANGED app
  \/ getStats /\ UNCHANGED app

SpecMixedIds == Init /\ [][NextMixedIds]_vars

(* two callers that build, each from a batch of its own, with nothing to   *)
(* keep the second from starting while the first awaits                    *)
OverlapBatches ==
  {<< Chunk("a", "x", "hobbies") >>, << Chunk(Undef, "y", Undef) >>}

NextOverlap ==
  \/ \E t \in Tasks : initEmbedder(t) /\ UNCHANGED app
  \/ \E t \in Tasks : pipelineResolves(t) /\ UNCHANGED app
  \/ \E t \in Tasks, chunks \in OverlapBatches :
        builds < OverlapBuilds /\ buildVectorStore(t, TRUE, chunks) /\ UNCHANGED app
  \/ \E t \in Tasks : buildAfterInit(t) /\ UNCHANGED app
  \/ \E t \in Tasks, e \in Vecs : buildEmbedded(t, e) /\ UNCHANGED app
  \/ getStats /\ UNCHANGED app

SpecOverlap == Init /\ [][NextOverlap]_vars

(* searches alone, on a store that a build has filled and saved: every     *)
(* collection of up to PipelineRecords records with any embeddings, every  *)
(* topK and threshold that cuts the scores at a different place            *)
PipelineCollections ==
  UNION {{BuiltFrom([i \in 1..n |-> Chunk(Undef, "y", Undef)], es, n) :
            es \in [1..n -> Vecs]} : n \in 1..PipelineRecords}

PipelineMinScores == {[n |-> 1, d |-> 1], [n |-> 2, d |-> 1]}
PipelineOptions ==
  {Options(k, m, << >>) :
     k \in {<< >>} \cup {<< j >> : j \in 1..PipelineTopK},
     m \in {<< >>} \cup {<< j >> : j \in PipelineMinScores}}

InitPipelines ==
  /\ ver \in {1, 2}
  /\ embedder = TRUE
  /\ isReady = (ver = 2)
  /\ vectors \in PipelineCollections
  /\ fieldIndex = buildIndex(ver, vectors).index
  /\ disk = saveToDisk(vectors)
  /\ task = [t \in Tasks |-> Idle]
  /\ builds = 0
  /\ acquired = 1
  /\ last = NoLast
  /\ ragReady = FALSE
  /\ initRAG = "start"

NextPipelines ==
  \/ \E t \in Tasks, q \in Queries, o \in PipelineOptions : search(t, q, o) /\ UNCHANGED app
  \/ \E t \in Tasks : searchAfterInit(t) /\ UNCHANGED app
  \/ \E t \in Tasks, e \in Vecs : searchEmbedded(t, e) /\ UNCHANGED app

SpecPipelines == InitPipelines /\ [][NextPipelines]_vars

(* the rebuild chain of the consumers: loadOwnerData, chunkDocuments,      *)
(* buildVectorStore                                                        *)

(* loader.js push: {content: content.trim(), metadata: {field}}; the       *)
(* document has no property named field of its own                         *)
LoaderFields == Fields
Doc(content, f) == [content |-> content, field |-> Undef, metadata |-> Metadata(f)]
LoaderDocs == SeqsUpTo({Doc(c, f) : c \in {"x", "y"}, f \in LoaderFields}, MaxChunks) \ {<< >>}

(* embed.js, first version: one chunk per document, tagged doc.field or    *)
(* "general"                                                               *)
chunkDocuments1(docs) ==
  [i \in 1..Len(docs) |->
     [id |-> "chunk_" \o ToString(i - 1), content |-> docs[i].content,
      field |-> IF Truthy(docs[i].field) THEN docs[i].field ELSE "general",
      metadata |-> NoMetadata]]

(* embed.js, second version: the splitter leaves a text shorter than       *)
(* chunkSize in one piece; the chunk's metadata spreads doc.metadata       *)
chunkDocuments2(docs) ==
  [i \in 1..Len(docs) |->
     [id |-> "doc_" \o ToString(i - 1), content |-> docs[i].content,
      field |-> Undef, metadata |-> docs[i].metadata]]

chunkDocuments(docs) ==
  IF ver = 1 THEN chunkDocuments1(docs) ELSE chunkDocuments2(docs)

NextLoader ==
  \/ \E t \in Tasks : initEmbedder(t) /\ UNCHANGED app
  \/ \E t \in Tasks : pipelineResolves(t) /\ UNCHANGED app
  \/ \E t \in Tasks : pipelineRejects(t) /\ UNCHANGED app
  \/ \E t \in Tasks, docs \in LoaderDocs :
        builds < MaxBuilds /\ buildVectorStore(t, TRUE, chunkDocuments(docs)) /\ UNCHANGED app
  \/ \E t \in Tasks : buildAfterInit(t) /\ UNCHANGED app
  \/ \E t \in Tasks, e \in Vecs : buildEmbedded(t, e) /\ UNCHANGED app
  \/ \E t \in Tasks : embedderRejects(t) /\ UNCHANGED app
  \/ getStats /\ UNCHANGED app

SpecLoader == Init /\ [][NextLoader]_vars

(* builds and searches with a provider that answers every request and an  *)
(* event loop that runs every continuation                                 *)

NextLive ==
  \/ \E t \in Tasks : initEmbedder(t) /\ UNCHANGED app
  \/ \E t \in Tasks : pipelineResolves(t) /\ UNCHANGED app
  \/ \E t \in Tasks : pipelineRejects(t) /\ UNCHANGED app
  \/ \E t \in Tasks, chunks \in ChunkArrays :
        builds < MaxBuilds /\ buildVectorStore(t, TRUE, chunks) /\ UNCHANGED app
  \/ \E t \in Tasks : buildAfterInit(t) /\ UNCHANGED app
  \/ \E t \in Tasks, e \in Vecs : buildEmbedded(t, e) /\ UNCHANGED app
  \/ \E t \in Tasks : embedderRejects(t) /\ UNCHANGED app
  \/ \E t \in Tasks, q \in Queries, o \in SearchOptions : search(t, q, o) /\ UNCHANGED app
  \/ \E t \in Tasks : searchAfterInit(t) /\ UNCHANGED app
  \/ \E t \in Tasks, e \in Vecs : searchEmbedded(t, e) /\ UNCHANGED app

(* `await pipeline(...)` is answered, resolved or rejected *)
AcquisitionAnswered(t) ==
  (pipelineResolves(t) \/ pipelineRejects(t)) /\ UNCHANGED app

(* the continuation after version 2's `await this.initEmbedder()` runs *)
BuildContinues(t) == buildAfterInit(t) /\ UNCHANGED app

(* `await this.embedText(...)` of a build is answered, resolved or rejected *)
EmbeddingAnswered(t) ==
  /\ task[t].op = "build"
  /\ (\E e \in Vecs : buildEmbedded(t, e)) \/ embedderRejects(t)
  /\ UNCHANGED app

SpecLive ==
  /\ Init
  /\ [][NextLive]_vars
  /\ \A t \in Tasks : /\ WF_vars(AcquisitionAnswered(t))
                       /\ WF_vars(BuildContinues(t))
                       /\ WF_vars(EmbeddingAnswered(t))

(* ------------------------------ index.js ------------------------------ *)

(* index.js reads vectorStore.vectors and awaits chunkDocuments: it runs   *)
(* with the second versions. The file is absent, or left by an earlier run *)
IndexFiles ==
  InitialFiles \cup {File(<< >>), File(<< DiskRecord(Metadata("hobbies")) >>)}

InitIndex ==
  /\ ver = 2
  /\ embedder = FALSE
  /\ isReady = FALSE
  /\ vectors = << >>
  /\ fieldIndex = EmptyIndex
  /\ disk \in IndexFiles
  /\ task = [t \in Tasks |-> Idle]
  /\ builds = 0
  /\ acquired = 0
  /\ last = NoLast
  /\ ragReady = FALSE
  /\ initRAG = "start"

(* process.exit(1) of initRAG's catch has not run *)
Running == initRAG # "exit"

(* lines 65-70: initRAG() runs up to `await vectorStore.initEmbedder()` *)
initRAGStart ==
  /\ initRAG = "start"
  /\ \E t \in Tasks : initEmbedder(t)
  /\ initRAG' = IF last'.op = "init" THEN "inited" ELSE "init"
  /\ UNCHANGED ragReady

(* the awaited initEmbedder() resolves *)
initRAGInitResolves(t) ==
  /\ initRAG = "init"
  /\ pipelineResolves(t)
  /\ initRAG' = "inited"
  /\ UNCHANGED ragReady

(* the awaited initEmbedder() rejects: lines 90-93 *)
initRAGInitRejects(t) ==
  /\ initRAG = "init"
  /\ pipelineRejects(t)
  /\ initRAG' = "exit"
  /\ UNCHANGED ragReady

(* lines 72-74 and 86: loadFromDisk() and the test of its result, with     *)
(* `ragReady = true` in the same run when there is nothing to rebuild      *)
initRAGLoad ==
  /\ initRAG = "inited"
  /\ loadFromDisk
  /\ IF last'.outcome = "raised"
       THEN initRAG' = "exit" /\ UNCHANGED ragReady
       ELSE IF ~last'.loaded \/ Len(vectors') = 0
              THEN initRAG' = "rebuild" /\ UNCHANGED ragReady
              ELSE initRAG' = "done" /\ ragReady' = TRUE

(* lines 77-83: loadOwnerData(), chunkDocuments(docs) and the call of      *)
(* buildVectorStore(chunks)                                                *)
initRAGRebuild(t, docs) ==
  /\ initRAG = "rebuild"
  /\ buildVectorStore(t, TRUE, chunkDocuments(docs))
  /\ initRAG' = IF last'.op = "build" THEN "exit" ELSE "build"
  /\ UNCHANGED ragReady

(* initRAG() after a step of the build it awaits: lines 86 and 90-93 *)
initRAGResumes ==
  IF initRAG = "build" /\ last'.op = "build"
    THEN IF last'.outcome = "returned"
           THEN initRAG' = "done" /\ ragReady' = TRUE
           ELSE initRAG' = "exit" /\ UNCHANGED ragReady
    ELSE UNCHANGED app

(* what a client posts to /ask as req.body.prompt *)
Prompts == Queries \cup {"", "what is rust"}

(* lines 40-59: a question opener and no personal word *)
isGeneralKnowledge(prompt) == prompt = "what is rust"

(* a reply of /ask that calls nothing of the store *)
reply ==
  /\ last' = [NoLast EXCEPT !.op = "ask", !.outcome = "returned"]
  /\ UNCHANGED << builds, acquired, ver, embedder, isReady, store, task >>

(* POST /ask that searches whether ragReady or not *)
ask_noGuard(t, prompt) ==
  /\ Running
  /\ IF ~Truthy(prompt) \/ isGeneralKnowledge(prompt)
       THEN reply
       ELSE search(t, prompt, Options(<< >>, << >>, << >>))
  /\ UNCHANGED app

(* POST /ask up to `await vectorStore.search(prompt)`: lines 101-122 *)
ask(t, prompt) ==
  /\ Running
  /\ IF ~ragReady \/ ~Truthy(prompt) \/ isGeneralKnowledge(prompt)
       THEN reply
       ELSE search(t, prompt, Options(<< >>, << >>, << >>))
  /\ UNCHANGED app

NextIndex ==
  \/ initRAGStart
  \/ \E t \in Tasks : initRAGInitResolves(t)
  \/ \E t \in Tasks : initRAGInitRejects(t)
  \/ initRAGLoad
  \/ \E t \in Tasks, docs \in LoaderDocs \cup {<< >>} : initRAGRebuild(t, docs)
  \/ \E t \in Tasks : buildAfterInit(t) /\ initRAGResumes
  \/ \E t \in Tasks, e \in Vecs : buildEmbedded(t, e) /\ initRAGResumes
  \/ \E t \in Tasks : embedderRejects(t) /\ initRAGResumes
  \/ \E t \in Tasks, prompt \in Prompts : ask(t, prompt)
  \/ \E t \in Tasks : searchAfterInit(t) /\ UNCHANGED app
  \/ \E t \in Tasks, e \in Vecs : searchEmbedded(t, e) /\ UNCHANGED app

SpecIndex == InitIndex /\ [][NextIndex]_vars


(* ------------------------------ claims -------------------------------- *)

(* the field a record belongs to: metadata.field, "general" by default *)
ClaimedField(v) ==
  IF v.metadata.defined /\ Truthy(v.metadata.field) THEN v.metadata.field ELSE "general"

Range(seq) == {seq[k] : k \in DOMAIN seq}

(* idx groups the positions of vs by field: each position in the group of  *)
(* its record's field and in no other, no position twice, none foreign     *)
IndexGroups(vs, idx) ==
  \A f \in FieldKeys :
    /\ Range(idx[f]) = {p \in 0..(Len(vs) - 1) : ClaimedField(vs[p + 1]) = f}
    /\ Cardinality(Range(idx[f])) = Len(idx[f])

(* the chunks of a call that have content, in order *)
Survivors(chunks) == SelectSeq(chunks, LAMBDA c : Truthy(c.content))

BuildReturned == last.op = "build" /\ last.outcome = "returned"
SearchReturned == last.op = "search" /\ last.outcome = "returned"

(* the score search gives the record at position p for the query of the    *)
(* search that just returned                                               *)
ScoreAt(p) ==
  IF ver = 1 THEN cosineSimilarity1(last.call.queryEmbedding, vectors[p + 1].embedding)
  ELSE cosineSimilarity2(last.call.queryEmbedding, vectors[p + 1].embedding)

(* the positions whose score reaches the threshold of that search *)
Passing == {p \in 0..(Len(vectors) - 1) : ScoreGE(ScoreAt(p), last.call.minScore)}
ReturnedPositions == {last.result[i].pos : i \in DOMAIN last.result}

(* C1: after buildVectorStore, loadFromDisk or clear completes, by         *)
(* returning or by raising, the field index is the grouping of the record  *)
(* collection's positions by metadata.field (default "general").           *)
C1_IndexConsistentAfterMutation ==
  last.op \in {"build", "load", "clear"} => IndexGroups(vectors, fieldIndex)

(* C2: when an embedding call fails during buildVectorStore (the embedder  *)
(* not initialized, or the provider failing), the build raises and the     *)
(* record collection and the field index are what they were when the       *)
(* build was called.                                                       *)
C2_FailedBuildLeavesStore ==
  (/\ last.op = "build"
   /\ last.outcome = "raised"
   /\ last.error \in {"NotInitializedError", "InvalidInputError", "EmbedError"})
  => /\ vectors = last.call.pre.vectors
     /\ fieldIndex = last.call.pre.fieldIndex

(* C3: when buildVectorStore returns, the record collection is made of the *)
(* chunks of this call that have content, one record each and in order,    *)
(* with nothing of the prior state; the field index is its grouping; the   *)
(* file holds exactly that collection.                                     *)
C3_BuildReplacesIndexesPersists ==
  BuildReturned =>
    LET kept == Survivors(last.call.chunks)
    IN /\ Len(vectors) = Len(kept)
       /\ \A i \in 1..Len(kept) :
            /\ vectors[i].content = kept[i].content
            /\ Truthy(kept[i].id) => vectors[i].id = kept[i].id
       /\ IndexGroups(vectors, fieldIndex)
       /\ disk.exists
       /\ disk.data = vectors

C3_Witness ==
  /\ BuildReturned
  /\ last.call.pre.vectors # << >>
  /\ Len(last.call.chunks) > Len(vectors)
  /\ vectors # << >>

(* C4: a search that runs while a build is suspended at an embedding await *)
(* reads either the collection from before the build or the complete       *)
(* collection of the build, never a partial one.                           *)
C4_SearchSeesNoPartialBuild ==
  \A b \in Tasks :
    (SearchReturned /\ task[b].op = "build" /\ task[b].pc = "embed")
    => \/ vectors = task[b].pre.vectors
       \/ Len(vectors) = Len(Survivors(task[b].chunks))

(* C5: search returns the topK highest-scoring records among those that    *)
(* pass the threshold, all of them when fewer than topK pass, in           *)
(* descending score order; no passing record left out scores higher than   *)
(* a returned one.                                                         *)
C5_TopKOfPassing ==
  SearchReturned =>
    LET r == last.result
    IN /\ Len(r) = Min(last.call.topK, Cardinality(Passing))
       /\ Cardinality(ReturnedPositions) = Len(r)
       /\ \A i \in DOMAIN r :
            /\ r[i].pos \in Passing
            /\ r[i].rec = vectors[r[i].pos + 1]
            /\ r[i].score = ScoreAt(r[i].pos)
       /\ \A i, j \in DOMAIN r : i < j => ScoreGE(r[i].score, r[j].score)
       /\ \A p \in Passing \ ReturnedPositions :
            \A i \in DOMAIN r : ScoreGE(r[i].score, ScoreAt(p))

C5_Witness ==
  /\ SearchReturned
  /\ Cardinality(Passing) > last.call.topK
  /\ Len(last.result) = last.call.topK
  /\ \E p \in Passing \ ReturnedPositions : ScoreLT(ScoreAt(p), last.result[1].score)

C7_TiesInInsertionOrder ==
  SearchReturned =>
    LET r == last.result
    IN /\ \A i, j \in DOMAIN r :
            (i < j /\ ScoreEQ(r[i].score, r[j].score)) => r[i].pos < r[j].pos
       /\ \A i \in DOMAIN r : \A p \in Passing \ ReturnedPositions :
            ScoreEQ(r[i].score, ScoreAt(p)) => r[i].pos < p

C7_Witness ==
  /\ SearchReturned
  /\ last.result # << >>
  /\ \E p \in Passing \ ReturnedPositions :
       ScoreEQ(last.result[Len(last.result)].score, ScoreAt(p))

(* C8: with a fieldFilter option, no returned result has a metadata.field  *)
(* other than the requested one.                                           *)
C8_FieldFilterSound ==
  (SearchReturned /\ last.call.fieldFilter # << >>)
  => \A i \in DOMAIN last.result :
       ClaimedField(last.result[i].rec) = last.call.fieldFilter[1]

(* a step of a search call: it is called, resumes or completes *)
SearchStep ==
  \/ last'.op = "search"
  \/ \E t \in Tasks : task'[t].op = "search" /\ task'[t] # task[t]

(* C9: no step of a search call changes the record collection, the field   *)
(* index or the file, whether the call returns results, returns [] or      *)
(* raises.                                                                 *)
C9_SearchNeverMutates == [][SearchStep => UNCHANGED store]_vars

C9_Witness ==
  /\ SearchReturned
  /\ Len(last.result) > 1
  /\ disk.exists

(* C10: a search called on a store with zero records returns the empty     *)
(* result set and does not raise, whatever the state of the embedder.      *)
C10_EmptyStoreSearchReturnsEmpty ==
  (last.op = "search" /\ last.call.pc = "idle" /\ Len(vectors) = 0)
  => (last.outcome = "returned" /\ last.result = << >>)

(* C11: a search called on a store that holds records does not fail with   *)
(* the not-initialized error: while the embedder is not initialized the    *)
(* search initializes it itself.                                           *)
C11_SearchInitializesItself ==
  (last.op = "search" /\ Len(vectors) > 0)
  => last.error # "NotInitializedError"

(* C12: over the life of the process the provider is acquired once: the    *)
(* acquisition answers at most one time, whatever calls overlap.           *)
C12_AcquiredOnce == acquired <= 1

(* a call of initEmbedder() on its own is made in this step *)
InitCalled ==
  \/ last'.op = "init" /\ last'.call.pc = "idle"
  \/ \E t \in Tasks : task[t].op = "idle" /\ task'[t].op = "init"

(* an acquisition `pipeline(...)` is issued in this step *)
AcquisitionIssued ==
  \E t \in Tasks : task'[t].pc = "acquire" /\ task[t].pc # "acquire"

(* C13: initEmbedder() called once the embedder is set returns at once,    *)
(* issues no acquisition and leaves the embedder and the ready flag as     *)
(* they were.                                                              *)
C13_InitIdempotent ==
  [][(InitCalled /\ embedder)
     => /\ last'.op = "init" /\ last'.outcome = "returned"
        /\ ~AcquisitionIssued
        /\ UNCHANGED << embedder, isReady, acquired >>]_vars

C13_Witness ==
  /\ last.op = "init" /\ last.outcome = "returned" /\ last.call.pc = "idle"
  /\ embedder /\ acquired = 1

(* C14: when the acquisition fails the awaiting call raises and the        *)
(* embedder and the ready flag stay as they were; initEmbedder() called    *)
(* while the embedder is unset issues an acquisition.                      *)
C14_FailedInitRetries ==
  [][/\ (last'.error = "InitializationError")
          => /\ last'.outcome = "raised"
             /\ UNCHANGED << embedder, isReady, acquired >>
     /\ (InitCalled /\ ~embedder) => AcquisitionIssued]_vars

C14_Witness ==
  /\ last.op = "init" /\ last.error = "InitializationError"
  /\ ~embedder /\ ~isReady

(* the provider `this.embedder(text, ...)` is called in this step *)
ProviderCalled ==
  \E t \in Tasks : task'[t].pc = "embed" /\ task'[t] # task[t]

(* C15: while no acquisition has answered, embedText never calls the       *)
(* provider, and the call that reaches it (version 1's build of a chunk    *)
(* with content) raises the not-initialized error.                         *)
C15_EmbedTextGate ==
  [][(acquired = 0)
     => /\ ~ProviderCalled
        /\ (ver = 1 /\ builds' # builds)
             => /\ last'.op = "build"
                /\ (last'.call.isArray /\ Survivors(last'.call.chunks) # << >>)
                     => (last'.outcome = "raised"
                         /\ last'.error = "NotInitializedError")]_vars

C15_Witness ==
  /\ last.op = "build" /\ last.error = "NotInitializedError"
  /\ acquired = 0

(* the text a call waiting for the provider has passed to embedText *)
TextOf(call) ==
  IF call.op = "search" THEN call.query ELSE call.chunks[call.i].content

(* C16: embedText hands the provider no text that is empty or not a        *)
(* string: such a text, a search's query included, raises the              *)
(* invalid-input error before the provider is called.                      *)
C16_InvalidTextRefused ==
  /\ \A t \in Tasks :
       task[t].pc = "embed"
         => (Truthy(TextOf(task[t])) /\ IsString(TextOf(task[t])))
  /\ (last.op = "search" /\ last.call.pc = "inited"
      /\ ~(Truthy(last.call.query) /\ IsString(last.call.query)))
       => last.error = "InvalidInputError"

(* C17: buildVectorStore called with something that is not an array, or    *)
(* with an empty array, raises in the same step and leaves the record      *)
(* collection, the field index and the file exactly as they were.          *)
C17_RejectedBuildLeavesStore ==
  [][(builds' # builds)
     => /\ \A t \in Tasks :
             (task'[t].op = "build" /\ task[t].op = "idle")
               => (task'[t].isArray /\ task'[t].chunks # << >>)
        /\ (last'.op = "build"
            /\ (~last'.call.isArray \/ last'.call.chunks = << >>))
             => /\ last'.outcome = "raised"
                /\ last'.error = "EmptyInputError"
                /\ UNCHANGED store]_vars

C17_Witness ==
  /\ last.op = "build" /\ last.error = "EmptyInputError"
  /\ ~last.call.isArray
  /\ vectors # << >> /\ disk.exists

(* C18: when a build returns, the stored records are the chunks that have  *)
(* content, one record per such chunk and in the chunks' order: the i-th   *)
(* record has the content of the i-th chunk with content.                  *)
C18_RecordsInChunkOrder ==
  BuildReturned
  => /\ Len(vectors) = Len(Survivors(last.call.chunks))
     /\ \A i \in DOMAIN vectors :
          vectors[i].content = Survivors(last.call.chunks)[i].content

C18_Witness ==
  /\ BuildReturned
  /\ Len(vectors) = 2
  /\ vectors[1].content # vectors[2].content

(* C19: a chunk whose content is absent or empty is passed over: no        *)
(* embedding is asked for it, the build goes on, and every record of the   *)
(* store has content that is not empty.                                    *)
C19_NoEmptyContentStored ==
  /\ \A i \in DOMAIN vectors : Truthy(vectors[i].content)
  /\ \A t \in Tasks :
       (task[t].op = "build" /\ task[t].pc = "embed")
         => Truthy(task[t].chunks[task[t].i].content)
  /\ (last.op = "build" /\ last.error = "InvalidInputError")
       => \E j \in DOMAIN last.call.chunks :
            Truthy(last.call.chunks[j].content)
            /\ ~IsString(last.call.chunks[j].content)

C19_Witness ==
  /\ BuildReturned
  /\ \E j \in DOMAIN last.call.chunks : ~Truthy(last.call.chunks[j].content)
  /\ \E j \in DOMAIN last.call.chunks : Truthy(last.call.chunks[j].content)
  /\ Len(vectors) = 1

(* C20: a collection with records that a build has just saved is read back *)
(* by loadFromDisk as it was: the load returns true and the collection is  *)
(* equal record by record (id, content, embedding, metadata) and in order. *)
C20_SaveLoadRoundTrip ==
  [][(BuildReturned /\ vectors # << >> /\ last'.op = "load")
     => /\ last'.outcome = "returned"
        /\ last'.loaded
        /\ vectors' = vectors]_vars

C20_Witness ==
  /\ last.op = "load" /\ last.loaded
  /\ builds > 0
  /\ disk = saveToDisk(vectors)
  /\ \E i \in DOMAIN vectors : vectors[i].id = Undef
  /\ \E i \in DOMAIN vectors : vectors[i].metadata.field = "hobbies"

(* C21: loadFromDisk called while the file is absent or holds an empty     *)
(* array returns false, raises nothing and leaves the record collection    *)
(* and the field index as they were.                                       *)
C21_LoadOfNothingReturnsFalse ==
  [][(last'.op = "load" /\ (~disk.exists \/ Len(disk.data) = 0))
     => /\ last'.outcome = "returned"
        /\ ~last'.loaded
        /\ UNCHANGED << vectors, fieldIndex >>]_vars

(* C22: a load of a file that holds a record without metadata returns      *)
(* true, and every such record is loaded with metadata {field: "general"}  *)
(* and indexed under "general".                                            *)
C22_LegacyRecordNormalized ==
  (last.op = "load" /\ disk.exists
   /\ \E i \in DOMAIN disk.data : ~disk.data[i].metadata.defined)
  => /\ last.outcome = "returned"
     /\ last.loaded
     /\ Len(vectors) = Len(disk.data)
     /\ \A i \in DOMAIN disk.data :
          ~disk.data[i].metadata.defined
            => /\ vectors[i].metadata = Metadata("general")
               /\ (i - 1) \in Range(fieldIndex["general"])

(* C23: clear returns with the record collection empty, the field index    *)
(* empty and the file absent, whatever the state it is called in; a clear  *)
(* that follows a clear changes nothing of them.                           *)
C23_ClearEmptiesAndIsIdempotent ==
  [][(last'.op = "clear")
     => /\ last'.outcome = "returned"
        /\ vectors' = << >>
        /\ fieldIndex' = EmptyIndex
        /\ ~disk'.exists
        /\ (last.op = "clear") => UNCHANGED store]_vars

C23_Witness ==
  /\ last.op = "clear" /\ last.outcome = "returned"
  /\ builds > 0 /\ NoBuildInFlight /\ embedder
  /\ vectors = << >> /\ ~disk.exists

(* C24: a loadFromDisk that follows a clear at once returns false and the  *)
(* record collection is empty after it.                                    *)
C24_LoadAfterClear ==
  [][(last.op = "clear" /\ last'.op = "load")
     => /\ last'.outcome = "returned"
        /\ ~last'.loaded
        /\ vectors' = << >>]_vars

C24_Witness ==
  /\ last.op = "load" /\ last.outcome = "returned" /\ ~last.loaded
  /\ builds > 0 /\ NoBuildInFlight /\ embedder
  /\ vectors = << >> /\ ~disk.exists

(* C25: when a build raises because the embedding of a chunk failed, the   *)
(* file is what it was when the build was called: present with the same    *)
(* contents, or absent.                                                    *)
C25_FailedEmbeddingLeavesFile ==
  (last.op = "build" /\ last.error = "EmbedError")
  => disk = last.call.pre.disk

C25_Witness ==
  /\ last.op = "build" /\ last.error = "EmbedError"
  /\ last.call.i > 1
  /\ disk.exists /\ disk.data # vectors

(* C26: when the file write at the end of a build fails, the build raises  *)
(* that failure to its caller, and the field index is the index of the     *)
(* record collection: each field's group lists the positions of the        *)
(* records of that field.                                                  *)
C26_FailedSaveKeepsMemoryConsistent ==
  (last.op = "build" /\ last.error = "PersistenceError")
  => /\ last.outcome = "raised"
     /\ IndexGroups(vectors, fieldIndex)

C26_Witness ==
  /\ last.op = "build" /\ last.error = "PersistenceError"
  /\ Len(vectors) = 2
  /\ disk # saveToDisk(vectors)

(* C27: when a build of chunks that mix ids of the caller's (all           *)
(* different) and absent ids returns, every stored record has a defined    *)
(* id and no two stored records have the same id.                          *)
C27_IdsDefinedAndUnique ==
  BuildReturned
  => /\ \A i \in DOMAIN vectors : vectors[i].id # Undef
     /\ \A i, j \in DOMAIN vectors : i # j => vectors[i].id # vectors[j].id

(* C28: when a build returns, each record has the metadata of its chunk    *)
(* as the chunk gave it, and the record of a chunk without metadata has    *)
(* metadata {field: "general"}: every record has a metadata.field.         *)
C28_MetadataKeptOrDefaulted ==
  BuildReturned
  => /\ Len(vectors) = Len(Survivors(last.call.chunks))
     /\ \A i \in DOMAIN vectors :
          LET c == Survivors(last.call.chunks)[i]
          IN /\ vectors[i].metadata =
                  IF c.metadata.defined THEN c.metadata ELSE Metadata("general")
             /\ vectors[i].metadata.field # Undef

(* position p comes before position q in a ranking: higher score first,    *)
(* equal scores in the order of the collection                             *)
RankedBefore(p, q) ==
  \/ ScoreLT(ScoreAt(q), ScoreAt(p))
  \/ ScoreEQ(ScoreAt(p), ScoreAt(q)) /\ p < q

(* C29: what the store holds and answers is a function of what it was      *)
(* given: a build that returns leaves the records made, in order, of its   *)
(* chunks with content and the provider's answers, whatever the store held *)
(* before; a search that returns gives the passing records in the one      *)
(* order fixed by score and position, cut at topK.  Two runs given the     *)
(* same chunks, answers and queries therefore end and answer alike.        *)
C29_Deterministic ==
  /\ BuildReturned
       => /\ Len(vectors) = Len(Survivors(last.call.chunks))
          /\ vectors = BuiltFrom(Survivors(last.call.chunks),
                                 [k \in DOMAIN vectors |-> vectors[k].embedding],
                                 Len(vectors))
  /\ (SearchReturned /\ last.call.pc = "embed")
       => /\ Len(last.result) = Min(last.call.topK, Cardinality(Passing))
          /\ \A i \in DOMAIN last.result :
               LET p == last.result[i].pos
               IN /\ p \in Passing
                  /\ Cardinality({q \in Passing : RankedBefore(q, p)}) = i - 1
                  /\ last.result[i].rec = vectors[p + 1]
                  /\ ScoreEQ(last.result[i].score, ScoreAt(p))

C29_Witness ==
  /\ SearchReturned /\ last.call.pc = "embed"
  /\ builds > 0 /\ Len(vectors) = 2 /\ disk = saveToDisk(vectors)
  /\ Len(last.result) = 2

(* C30: once two builds have been made and none is in flight, the last     *)
(* having returned, the record collection is the records of one batch      *)
(* alone, one per chunk with content and in the batch's order, and the     *)
(* file holds that collection - also when the two builds overlapped.       *)
C30_OverlappingBuildsDoNotMix ==
  (builds = OverlapBuilds /\ NoBuildInFlight /\ BuildReturned)
  => /\ \E batch \in OverlapBatches :
          /\ Len(vectors) = Len(Survivors(batch))
          /\ \A i \in DOMAIN vectors :
               vectors[i].content = Survivors(batch)[i].content
     /\ disk.exists
     /\ disk.data = vectors

(* no call of the store is in flight *)
AllIdle == \A t \in Tasks : task[t].op = "idle"

(* C31: a build that was waiting for an embedding when clear() ran - the   *)
(* file was there when the build was called and is gone when it ends, its  *)
(* own write not having failed - ends with memory agreeing with the        *)
(* absent file: no record in the collection, no group in the index.        *)
C31_ClearNotUndoneByBuild ==
  (/\ last.op = "build"
   /\ last.call.pc = "embed"
   /\ last.error # "PersistenceError"
   /\ last.call.pre.disk.exists
   /\ ~disk.exists)
  => /\ vectors = << >>
     /\ fieldIndex = EmptyIndex

(* what the file holds, an absent file counting as the empty collection *)
FileCollection(d) == IF d.exists THEN d.data ELSE << >>

(* the collection in memory is the one in the file, up to the metadata     *)
(* loadFromDisk gives a record that has none                               *)
Agrees(vs, d) == normalizeLegacy(vs) = normalizeLegacy(FileCollection(d))

(* C32: with no call in flight, after a load, a clear or a build that      *)
(* found memory and file agreeing, raised or not (a failed file write set  *)
(* aside), the collection in memory is the collection in the file.         *)
C32_MemoryEqualsFile ==
  (/\ AllIdle
   /\ last.error # "PersistenceError"
   /\ \/ last.op \in {"load", "clear"}
      \/ /\ last.op = "build"
         /\ Agrees(last.call.pre.vectors, last.call.pre.disk))
  => Agrees(vectors, disk)

(* C34: when loadFromDisk returns true the record collection is not empty. *)
C34_LoadedMeansNonEmpty ==
  (last.op = "load" /\ last.outcome = "returned" /\ last.loaded)
  => vectors # << >>

(* C35: getStats()/stats() reports the number of records in the collection *)
(* and exactly the metadata.field values (default "general") of those      *)
(* records, at every point it is called, a build's awaits included.        *)
C35_StatsDescribeCollection ==
  (last.op = "stats")
  => /\ last.stats.vectors = Len(vectors)
     /\ last.stats.fields = {ClaimedField(vectors[i]) : i \in DOMAIN vectors}

(* C33: on the scored list of any collection, for any threshold and topK,  *)
(* filter then sort then slice and sort then filter then slice give the    *)
(* same sequence, and it is the sequence the search returns.               *)
C33_PipelinesAgree ==
  (SearchReturned /\ last.call.pc = "embed")
  => /\ \A s \in {scored1(vectors, last.call.queryEmbedding),
                  scored2(vectors, last.call.queryEmbedding)} :
          filterSortSlice(s, last.call.topK, last.call.minScore)
            = sortFilterSlice(s, last.call.topK, last.call.minScore)
     /\ last.result \in
          {filterSortSlice(scored1(vectors, last.call.queryEmbedding),
                           last.call.topK, last.call.minScore),
           filterSortSlice(scored2(vectors, last.call.queryEmbedding),
                           last.call.topK, last.call.minScore)}

C33_Witness ==
  /\ SearchReturned /\ last.call.pc = "embed"
  /\ Len(vectors) = 3
  /\ Len(last.result) = 1
  /\ last.result[1].pos = 2
  /\ \E p \in Passing : p # 2

(* C37: every record a build makes of the loader's documents, chunked by   *)
(* chunkDocuments, carries the loader's field tag as its metadata.field,   *)
(* and the field index files it under that tag, none under "general".      *)
C37_LoaderFieldReachesRecord ==
  BuildReturned
  => /\ \A i \in DOMAIN vectors :
          /\ vectors[i].metadata.defined
          /\ vectors[i].metadata.field \in LoaderFields
     /\ fieldIndex["general"] = << >>

(* a call of vectorStore.search is made in this step: it is left awaiting, *)
(* or it returns at once                                                   *)
SearchCalled ==
  \/ \E t \in Tasks : task[t].op = "idle" /\ task'[t].op = "search"
  \/ last'.op = "search" /\ last'.call.pc = "idle"

(* C36: /ask calls vectorStore.search only while ragReady is true; ragReady *)
(* becomes true only once the embedder is initialised and, in that step,   *)
(* loadFromDisk returned a non-empty store or buildVectorStore returned;   *)
(* once true ragReady stays true.                                          *)
C36_AskGuardedByRagReady ==
  [][/\ SearchCalled => ragReady
     /\ (~ragReady /\ ragReady')
          => /\ isReady' /\ acquired' >= 1
             /\ \/ /\ last'.op = "load" /\ last'.outcome = "returned"
                   /\ last'.loaded /\ vectors' # << >>
                \/ /\ last'.op = "build" /\ last'.outcome = "returned"
     /\ ragReady => ragReady']_vars

C36_Witness ==
  /\ ragReady
  /\ SearchReturned
  /\ Len(last.result) >= 1
  /\ builds = 1

(* C38: with a provider that answers every request, every buildVectorStore *)
(* call in flight leads to its completion: it returns with the collection  *)
(* written to the file, or it raises; searches may interleave.             *)
C38_BuildCompletes ==
  \A t \in Tasks :
    (task[t].op = "build")
      ~> /\ task[t].op = "idle"
         /\ last.op = "build"
         /\ \/ last.outcome = "raised"
            \/ last.outcome = "returned" /\ disk = saveToDisk(vectors)

C38_Witness ==
  /\ BuildReturned
  /\ Len(vectors) = 2
  /\ \E u \in Tasks : task[u].op = "search" /\ task[u].pc = "embed"

====
